---- MODULE Spec2Model ----
(***************************************************************************)
(* Bio.KEGG.Gene: the Record data model, the line parser `parse` (a        *)
(* generator) and the serializer Record.__str__.                           *)
(*                                                                         *)
(* A Python str is modelled as a sequence of one-character strings, so     *)
(* that slicing, strip, split and the 12-character label column are        *)
(* computed as the code computes them.  A list is a sequence, a tuple      *)
(* (a, b) is the pair <<a, b>>.                                            *)
(***************************************************************************)
EXTENDS Integers, Sequences, FiniteSets, TLC

VARIABLES
    handle,     \* the line source given to parse: a sequence of lines
    pos,        \* number of lines the for-loop has taken from handle
    keyword,    \* the local variable `keyword` (UNBOUND until first assigned)
    heap,       \* the Record objects constructed so far, by object identity
    record,     \* the local variable `record`: an index into heap
    yielded,    \* the objects handed to the consumer, in order (indices into heap)
    pc,         \* "start" | "run" | "suspended" | "closed" | "done" | "error"
    exc,        \* the exception that ended the generator, or "None"
    orig,       \* the Record whose __str__ is taken (serializer runs)
    text        \* the result of str(orig)

vars == <<handle, pos, keyword, heap, record, yielded, pc, exc, orig, text>>

\* ---- bounds of the model ----
\* longest input the handle delivers
MaxLines == 3
\* longest name list and dblinks list of a Record that is serialized
MaxItems == 2

\* ---- string literals of the source, as sequences of characters ----
TERMINATOR ==
    <<"/", "/", "/">>
BLANK_LABEL ==
    <<" ", " ", " ", " ", " ", " ", " ", " ", " ", " ", " ", " ">>
KW_ENTRY ==
    <<"E", "N", "T", "R", "Y", " ", " ", " ", " ", " ", " ", " ">>
KW_NAME ==
    <<"N", "A", "M", "E", " ", " ", " ", " ", " ", " ", " ", " ">>
KW_DEFINITION ==
    <<"D", "E", "F", "I", "N", "I", "T", "I", "O", "N", " ", " ">>
KW_ORTHOLOGY ==
    <<"O", "R", "T", "H", "O", "L", "O", "G", "Y", " ", " ", " ">>
KW_ORGANISM ==
    <<"O", "R", "G", "A", "N", "I", "S", "M", " ", " ", " ", " ">>
KW_POSITION ==
    <<"P", "O", "S", "I", "T", "I", "O", "N", " ", " ", " ", " ">>
KW_MOTIF ==
    <<"M", "O", "T", "I", "F", " ", " ", " ", " ", " ", " ", " ">>
KW_DBLINKS ==
    <<"D", "B", "L", "I", "N", "K", "S", " ", " ", " ", " ", " ">>
DOUBLE_SPACE ==
    <<" ", " ">>
COLON_SPACE ==
    <<":", " ">>

\* ---- input lines the handle may deliver ----
LineTerminator ==
    <<"/", "/", "/", "\n">>
LineEntry ==
    <<"E", "N", "T", "R", "Y", " ", " ", " ", " ", " ", " ", " ", "b", "1", "1", "7", "4", " ", "C", "D", "S", "\n">>
LineName ==
    <<"N", "A", "M", "E", " ", " ", " ", " ", " ", " ", " ", " ", ";", "m", "i", "n", "E", ";", "\n">>
LineDefinition ==
    <<"D", "E", "F", "I", "N", "I", "T", "I", "O", "N", " ", " ", "d", "\n">>
LineOrthology ==
    <<"O", "R", "T", "H", "O", "L", "O", "G", "Y", " ", " ", " ", "K", "1", " ", " ", "t", "\n">>
LineOrthologyTwoSeps ==
    <<"O", "R", "T", "H", "O", "L", "O", "G", "Y", " ", " ", " ", "K", "1", " ", " ", "t", " ", " ", "u", "\n">>
LineOrthologyNoSep ==
    <<"O", "R", "T", "H", "O", "L", "O", "G", "Y", " ", " ", " ", "K", "1", " ", "t", "\n">>
LineOrganism ==
    <<"O", "R", "G", "A", "N", "I", "S", "M", " ", " ", " ", " ", "e", "c", "o", " ", " ", "E", "\n">>
LineOrganismTwoSeps ==
    <<"O", "R", "G", "A", "N", "I", "S", "M", " ", " ", " ", " ", "e", "c", "o", " ", " ", "E", " ", " ", "c", "\n">>
LinePosition ==
    <<"P", "O", "S", "I", "T", "I", "O", "N", " ", " ", " ", " ", "p", "\n">>
LineMotif ==
    <<"M", "O", "T", "I", "F", " ", " ", " ", " ", " ", " ", " ", "P", ":", " ", "m", "1", " ", "m", "2", "\n">>
LineDblinks ==
    <<"D", "B", "L", "I", "N", "K", "S", " ", " ", " ", " ", " ", "d", "b", ":", " ", "i", "1", "\n">>
LineDblinksBadColon ==
    <<"D", "B", "L", "I", "N", "K", "S", " ", " ", " ", " ", " ", "a", ":", "b", "\n">>
LineDblinksCont ==
    <<"D", "B", "L", "I", "N", "K", "S", " ", " ", " ", " ", " ", "i", "2", " ", "i", "3", "\n">>
LineBlank ==
    <<" ", " ", " ", " ", " ", " ", " ", " ", " ", " ", " ", " ", "x", "9", " ", "y", "\n">>
LineBlankColon ==
    <<" ", " ", " ", " ", " ", " ", " ", " ", " ", " ", " ", " ", "P", ":", " ", "m", "1", "\n">>
LineEntryNoData ==
    <<"E", "N", "T", "R", "Y", " ", " ", " ", " ", " ", " ", " ", "\n">>
LineBlankTwoParts ==
    <<" ", " ", " ", " ", " ", " ", " ", " ", " ", " ", " ", " ", "h", "s", "a", " ", " ", "H", "\n">>
LineUnknown ==
    <<"R", "E", "F", "E", "R", "E", "N", "C", "E", " ", " ", " ", "r", "\n">>
LineSet ==
    {LineTerminator,
     LineEntry,
     LineEntryNoData,
     LineBlankTwoParts,
     LineName,
     LineDefinition,
     LineOrthology,
     LineOrthologyTwoSeps,
     LineOrthologyNoSep,
     LineOrganism,
     LineOrganismTwoSeps,
     LinePosition,
     LineMotif,
     LineDblinks,
     LineDblinksBadColon,
     LineDblinksCont,
     LineBlank,
     LineBlankColon,
     LineUnknown}

\* ---- Python str and list operations ----
Min(a, b) == IF a <= b THEN a ELSE b

\* s[:n]
Take(s, n) == SubSeq(s, 1, Min(n, Len(s)))

\* s[n:]
Drop(s, n) == SubSeq(s, Min(n, Len(s)) + 1, Len(s))

\* the characters str.strip() and str.split() treat as whitespace
WHITESPACE == {" ", "\t", "\n", "\r", "\f"}

\* sub in s
contains(s, sub) ==
    \E i \in 1..(Len(s) - Len(sub) + 1) : SubSeq(s, i, i + Len(sub) - 1) = sub

\* s.find(sub), 1-based; 0 when sub does not occur
find(s, sub) ==
    IF contains(s, sub)
    THEN CHOOSE i \in 1..(Len(s) - Len(sub) + 1) :
            /\ SubSeq(s, i, i + Len(sub) - 1) = sub
            /\ \A j \in 1..(i - 1) : SubSeq(s, j, j + Len(sub) - 1) # sub
    ELSE 0

\* s.rfind(sub, 0, to), 1-based; 0 when sub does not occur in s[0:to]
rfind(s, sub, to) ==
    LET t == Take(s, to)
        occ == {i \in 1..(Len(t) - Len(sub) + 1) : SubSeq(t, i, i + Len(sub) - 1) = sub}
    IN IF occ = {} THEN 0 ELSE CHOOSE i \in occ : \A j \in occ : j <= i

\* s.strip(chars)
strip_chars(s, chars) ==
    LET keep == {i \in 1..Len(s) : s[i] \notin chars}
    IN IF keep = {} THEN <<>>
       ELSE SubSeq(s, CHOOSE i \in keep : \A j \in keep : i <= j,
                      CHOOSE i \in keep : \A j \in keep : j <= i)

\* s.strip()
strip(s) == strip_chars(s, WHITESPACE)

\* s.split(sep): every non-overlapping occurrence of sep, left to right, separates
RECURSIVE split_sep(_, _)
split_sep(s, sep) ==
    LET i == find(s, sep)
    IN IF i = 0 THEN <<s>>
       ELSE <<SubSeq(s, 1, i - 1)>> \o split_sep(Drop(s, i + Len(sep) - 1), sep)

\* s.split(): the maximal runs of non-whitespace characters
RECURSIVE split(_)
split(s) ==
    LET word == {i \in 1..Len(s) : s[i] \notin WHITESPACE}
    IN IF word = {} THEN <<>>
       ELSE LET b == CHOOSE i \in word : \A j \in word : i <= j
                stop == {i \in (b + 1)..Len(s) : s[i] \in WHITESPACE}
                e == IF stop = {} THEN Len(s) + 1
                     ELSE CHOOSE i \in stop : \A j \in stop : i <= j
            IN <<SubSeq(s, b, e - 1)>> \o split(Drop(s, e - 1))

\* sep.join(list)
RECURSIVE join(_, _)
join(sep, list) ==
    IF list = <<>> THEN <<>>
    ELSE IF Len(list) = 1 THEN list[1]
    ELSE list[1] \o sep \o join(sep, Tail(list))

\* s.ljust(width)
ljust(s, width) ==
    s \o [i \in 1..(IF Len(s) < width THEN width - Len(s) ELSE 0) |-> " "]

\* s.splitlines(keepends): keepends keeps the "\n" that ends each line
RECURSIVE splitlines(_, _)
splitlines(s, keepends) ==
    IF s = <<>> THEN <<>>
    ELSE LET i == find(s, <<"\n">>)
         IN IF i = 0 THEN <<s>>
            ELSE <<SubSeq(s, 1, IF keepends THEN i ELSE i - 1)>>
                     \o splitlines(Drop(s, i), keepends)

\* ---- class Record ----
\* Record.__init__: every field at its zero value ("" and [] are both <<>>)
Record ==
    [entry |-> <<>>, name |-> <<>>, definition |-> <<>>, orthology |-> <<>>,
     organism |-> <<>>, position |-> <<>>, motif |-> <<>>, dblinks |-> <<>>]

\* ---- parse: the body of the for-loop ----
\* `keyword` before its first assignment
UNBOUND == <<"<unbound>">>

\* the outcome of handling one line: the record as the line leaves it, and the
\* exception the line raised ("None" when it raised none)
Ok(rec) == [exc |-> "None", record |-> rec]
Raise(e, rec) == [exc |-> e, record |-> rec]

\* if line[:3] == "///"
is_terminator(line) == Take(line, 3) = TERMINATOR

\* next_keyword that takes the label column of every line, blank or not
next_keyword_always(kw, line) == Take(line, 12)

\* if line[:12] != "            ": keyword = line[:12]
next_keyword(kw, line) ==
    IF Take(line, 12) # BLANK_LABEL THEN Take(line, 12) ELSE kw

\* data = line[12:].strip()
line_data(line) == strip(Drop(line, 12))

\* handle_ENTRY that takes the last word of the data
handle_ENTRY_last_word(rec, data) ==
    LET words == split(data)
    IN IF words = <<>> THEN Raise("IndexError", rec)
       ELSE Ok([rec EXCEPT !.entry = words[Len(words)]])

\* words = data.split(); record.entry = words[0]
handle_ENTRY(rec, data) ==
    LET words == split(data)
    IN IF words = <<>> THEN Raise("IndexError", rec)
       ELSE Ok([rec EXCEPT !.entry = words[1]])

\* data = data.strip(";"); record.name.append(data)
handle_NAME(rec, data) ==
    Ok([rec EXCEPT !.name = Append(@, strip_chars(data, {";"}))])

\* record.definition = data
handle_DEFINITION(rec, data) == Ok([rec EXCEPT !.definition = data])

\* unpack_double_space that cuts at the first separator only and always gives
\* two parts (data.partition("  ") without its middle)
unpack_partition(data) ==
    LET at == find(data, DOUBLE_SPACE)
    IN IF at = 0 THEN <<data, <<>>>>
       ELSE <<SubSeq(data, 1, at - 1), Drop(data, at + 1)>>

\* id, name = data.split("  "): unpacking needs exactly two parts
unpack_double_space(data) == split_sep(data, DOUBLE_SPACE)

\* record.orthology.append((id, name))
handle_ORTHOLOGY(rec, data) ==
    LET parts == unpack_double_space(data)
    IN IF Len(parts) # 2 THEN Raise("ValueError", rec)
       ELSE Ok([rec EXCEPT !.orthology = Append(@, <<parts[1], parts[2]>>)])

\* handle_ORGANISM that keeps the organism the record already has
handle_ORGANISM_keep_first(rec, data) ==
    LET parts == unpack_double_space(data)
    IN IF Len(parts) # 2 THEN Raise("ValueError", rec)
       ELSE IF rec.organism # <<>> THEN Ok(rec)
       ELSE Ok([rec EXCEPT !.organism = <<parts[1], parts[2]>>])

\* record.organism = (id, name)
handle_ORGANISM(rec, data) ==
    LET parts == unpack_double_space(data)
    IN IF Len(parts) # 2 THEN Raise("ValueError", rec)
       ELSE Ok([rec EXCEPT !.organism = <<parts[1], parts[2]>>])

\* record.position = data
handle_POSITION(rec, data) == Ok([rec EXCEPT !.position = data])

\* key, values = data.split(": "); values = values.split(); row = (key, values)
new_row(data) ==
    LET parts == split_sep(data, COLON_SPACE)
    IN IF Len(parts) # 2 THEN <<>> ELSE <<parts[1], split(parts[2])>>

\* handle_MOTIF that merges a row into the last pair when the keys are equal
handle_MOTIF_merging(rec, data) ==
    LET row == new_row(data)
        n == Len(rec.motif)
    IN IF row = <<>> THEN Raise("ValueError", rec)
       ELSE IF n > 0 /\ rec.motif[n][1] = row[1]
       THEN Ok([rec EXCEPT !.motif[n] = <<@[1], @[2] \o row[2]>>])
       ELSE Ok([rec EXCEPT !.motif = Append(@, row)])

\* record.motif.append(row)
handle_MOTIF(rec, data) ==
    LET row == new_row(data)
    IN IF row = <<>> THEN Raise("ValueError", rec)
       ELSE Ok([rec EXCEPT !.motif = Append(@, row)])

\* extend_last that takes the first pair (record.dblinks[0]) instead of the last
extend_first(dblinks, data) ==
    [dblinks EXCEPT ![1] = <<@[1], @[2] \o split(data)>>]

\* row = record.dblinks[-1]; values.extend(data.split()); record.dblinks[-1] = row
extend_last(dblinks, data) ==
    [dblinks EXCEPT ![Len(dblinks)] = <<@[1], @[2] \o split(data)>>]

\* the DBLINKS branch: a new row if ":" in data, else a continuation of the last
handle_DBLINKS(rec, data) ==
    IF contains(data, <<":">>)
    THEN LET row == new_row(data)
         IN IF row = <<>> THEN Raise("ValueError", rec)
            ELSE Ok([rec EXCEPT !.dblinks = Append(@, row)])
    ELSE IF rec.dblinks = <<>> THEN Raise("IndexError", rec)
         ELSE Ok([rec EXCEPT !.dblinks = extend_last(@, data)])

\* dispatch for a keyword that starts as a value equal to no label
dispatch_unbound_ignored(kw, rec, data) ==
    IF kw = KW_ENTRY THEN handle_ENTRY(rec, data)
    ELSE IF kw = KW_NAME THEN handle_NAME(rec, data)
    ELSE IF kw = KW_DEFINITION THEN handle_DEFINITION(rec, data)
    ELSE IF kw = KW_ORTHOLOGY THEN handle_ORTHOLOGY(rec, data)
    ELSE IF kw = KW_ORGANISM THEN handle_ORGANISM(rec, data)
    ELSE IF kw = KW_POSITION THEN handle_POSITION(rec, data)
    ELSE IF kw = KW_MOTIF THEN handle_MOTIF(rec, data)
    ELSE IF kw = KW_DBLINKS THEN handle_DBLINKS(rec, data)
    ELSE Ok(rec)

\* dispatch with a final else branch that rejects a keyword it does not know
dispatch_strict(kw, rec, data) ==
    IF kw = UNBOUND THEN Raise("UnboundLocalError", rec)
    ELSE IF kw = KW_ENTRY THEN handle_ENTRY(rec, data)
    ELSE IF kw = KW_NAME THEN handle_NAME(rec, data)
    ELSE IF kw = KW_DEFINITION THEN handle_DEFINITION(rec, data)
    ELSE IF kw = KW_ORTHOLOGY THEN handle_ORTHOLOGY(rec, data)
    ELSE IF kw = KW_ORGANISM THEN handle_ORGANISM(rec, data)
    ELSE IF kw = KW_POSITION THEN handle_POSITION(rec, data)
    ELSE IF kw = KW_MOTIF THEN handle_MOTIF(rec, data)
    ELSE IF kw = KW_DBLINKS THEN handle_DBLINKS(rec, data)
    ELSE Raise("ValueError", rec)

\* the if/elif chain on keyword; no else branch: any other keyword does nothing
dispatch(kw, rec, data) ==
    IF kw = UNBOUND THEN Raise("UnboundLocalError", rec)
    ELSE IF kw = KW_ENTRY THEN handle_ENTRY(rec, data)
    ELSE IF kw = KW_NAME THEN handle_NAME(rec, data)
    ELSE IF kw = KW_DEFINITION THEN handle_DEFINITION(rec, data)
    ELSE IF kw = KW_ORTHOLOGY THEN handle_ORTHOLOGY(rec, data)
    ELSE IF kw = KW_ORGANISM THEN handle_ORGANISM(rec, data)
    ELSE IF kw = KW_POSITION THEN handle_POSITION(rec, data)
    ELSE IF kw = KW_MOTIF THEN handle_MOTIF(rec, data)
    ELSE IF kw = KW_DBLINKS THEN handle_DBLINKS(rec, data)
    ELSE Ok(rec)

\* one non-terminator line, from the keyword update to the end of the chain
line_outcome(kw, rec, line) == dispatch(next_keyword(kw, line), rec, line_data(line))

\* ---- Bio.KEGG._wrap_kegg and _write_kegg (the line-wrap engine and the
\* ---- label writer the serializer calls) ----
\* width of the data column: lines longer than this are wrapped
KEGG_DATA_LENGTH == 68

\* width of the label column
KEGG_ITEM_LENGTH == 12

\* wrap rule = [indent, connect, (splitstr, connect, splitafter, keep), ...]
name_wrap ==
    [indent |-> 0, connect |-> <<>>,
     rules |-> << <<(<<" ">>), (<<"$">>), TRUE, TRUE>>,
                  <<(<<"-">>), (<<"$">>), TRUE, TRUE>> >>]

id_wrap(indent) ==
    [indent |-> indent, connect |-> <<>>,
     rules |-> << <<(<<" ">>), <<>>, TRUE, FALSE>> >>]

spaces(n) == [i \in 1..n |-> " "]

\* where rule k would split line: the 1-based place of the rightmost splitstr
\* within the width, 0 when there is none
split_place(line, rule) ==
    rfind(line, rule[1],
          IF rule[3] THEN KEGG_DATA_LENGTH ELSE KEGG_DATA_LENGTH + Len(rule[1]))

\* break line into a first line and indented continuation lines, joined by "\n"
RECURSIVE _wrap_kegg(_, _)
_wrap_kegg(line, wrap_rule) ==
    IF Len(line) <= KEGG_DATA_LENGTH THEN line
    ELSE LET usable == {k \in 1..Len(wrap_rule.rules) :
                           split_place(line, wrap_rule.rules[k]) > 0}
         IN IF usable = {}
            THEN \* no break point: force the break at the width
                 Take(line, KEGG_DATA_LENGTH) \o <<"\n">>
                   \o _wrap_kegg(spaces(wrap_rule.indent) \o wrap_rule.connect
                                    \o Drop(line, KEGG_DATA_LENGTH), wrap_rule)
            ELSE LET rule == wrap_rule.rules[CHOOSE k \in usable : \A j \in usable : k <= j]
                     at == split_place(line, rule) - 1
                     cut == IF rule[3] /\ rule[4] THEN at + Len(rule[1]) ELSE at
                     rest == IF rule[4] THEN cut ELSE cut + Len(rule[1])
                 IN Take(line, cut) \o <<"\n">>
                      \o _wrap_kegg(spaces(wrap_rule.indent) \o rule[2]
                                       \o Drop(line, rest), wrap_rule)

\* every physical line of info, in order (line.splitlines() for line in info)
RECURSIVE partial_lines(_)
partial_lines(info) ==
    IF info = <<>> THEN <<>>
    ELSE splitlines(Head(info), FALSE) \o partial_lines(Tail(info))

\* item.ljust(indent) + l + "\n" for each physical line; the item label is
\* written on the first line only, the following lines get a blank label
RECURSIVE write_lines(_, _)
write_lines(item, lines) ==
    IF lines = <<>> THEN <<>>
    ELSE ljust(item, KEGG_ITEM_LENGTH) \o Head(lines) \o <<"\n">>
           \o write_lines(<<>>, Tail(lines))

_write_kegg(item, info) == write_lines(item, partial_lines(info))

\* ---- Record.__str__ and the renderers it calls ----
_entry(r) == _write_kegg(<<"E", "N", "T", "R", "Y">>, <<r.entry>>)

_name(r) ==
    _write_kegg(<<"N", "A", "M", "E">>,
                [i \in 1..Len(r.name) |-> _wrap_kegg(r.name[i], name_wrap)])

_definition(r) ==
    _write_kegg(<<"D", "E", "F", "I", "N", "I", "T", "I", "O", "N">>, <<r.definition>>)

\* _dblinks that puts ":" with no blank after it between the key and the ids
_dblinks_bare_colon(r) ==
    _write_kegg(<<"D", "B", "L", "I", "N", "K", "S">>,
                [i \in 1..Len(r.dblinks) |->
                    _wrap_kegg(r.dblinks[i][1] \o <<":">>
                                 \o join(<<" ">>, r.dblinks[i][2]), id_wrap(9))])

\* entry[0] + ": " + " ".join(entry[1]) for each pair, wrapped with id_wrap(9)
_dblinks(r) ==
    _write_kegg(<<"D", "B", "L", "I", "N", "K", "S">>,
                [i \in 1..Len(r.dblinks) |->
                    _wrap_kegg(r.dblinks[i][1] \o COLON_SPACE
                                 \o join(<<" ">>, r.dblinks[i][2]), id_wrap(9))])

\* __str__ that also renders the DEFINITION block, after NAME
__str___with_definition(r) ==
    _entry(r) \o _name(r) \o _definition(r) \o _dblinks(r) \o TERMINATOR

__str__(r) == _entry(r) \o _name(r) \o _dblinks(r) \o TERMINATOR

\* ---- Records whose __str__ is taken ----
EntryToken ==
    <<"b", "1", "1", "7", "4">>
EntryTwoWords ==
    <<"b", "1", " ", "C", "D", "S">>
NameMinE ==
    <<"m", "i", "n", "E">>
NameTwoWords ==
    <<"s", "e", "p", "t", "u", "m", " ", "s", "i", "t", "e", "-", "d", "e", "t", "e", "r", "m", "i", "n", "i", "n", "g">>
NameSemicolon ==
    <<"f", "t", "s", "Z", ";">>
\* a name longer than the data column (74 characters)
NameLong ==
    <<"c", "e", "l", "l", " ", "d", "i", "v", "i", "s", "i", "o", "n", " ", "t", "o", "p", "o", "l", "o", "g", "i", "c", "a", "l", " ", "s", "p", "e", "c", "i", "f", "i", "c", "i", "t", "y", " ", "f", "a", "c", "t", "o", "r", " ", "M", "i", "n", "E", ",", " ", "s", "e", "p", "t", "u", "m", " ", "s", "i", "t", "e", "-", "d", "e", "t", "e", "r", "m", "i", "n", "i", "n", "g">>
RowPlain ==
    <<<<"d", "b">>, <<<<"i", "1">>, <<"i", "2">>>>>>
RowNoIds ==
    <<<<"P">>, <<>>>>
\* a pair whose rendering is longer than the data column
RowLong ==
    <<<<"N", "C", "B", "I", "-", "G", "e", "n", "e", "I", "D">>,
      <<<<"1", "2", "9", "3", "0", "0", "0", "0">>,
        <<"1", "2", "9", "3", "0", "0", "0", "1">>,
        <<"1", "2", "9", "3", "0", "0", "0", "2">>,
        <<"1", "2", "9", "3", "0", "0", "0", "3">>,
        <<"1", "2", "9", "3", "0", "0", "0", "4">>,
        <<"1", "2", "9", "3", "0", "0", "0", "5">>,
        <<"1", "2", "9", "3", "0", "0", "0", "6">>,
        <<"1", "2", "9", "3", "0", "0", "0", "7">>>>>>
EntrySet == {EntryToken, EntryTwoWords}
NameSet == {NameMinE, NameTwoWords, NameSemicolon, NameLong}
RowSet == {RowPlain, RowNoIds, RowLong}

SeqsUpTo(S, n) == UNION {[1..k -> S] : k \in 0..n}

\* the fields __str__ does not read: all at their zero value, or all populated
OtherFields ==
    {[definition |-> <<>>, orthology |-> <<>>, organism |-> <<>>,
      position |-> <<>>, motif |-> <<>>],
     [definition |-> <<"d">>, orthology |-> << <<(<<"K", "1">>), (<<"t">>)>> >>,
      organism |-> <<(<<"e", "c", "o">>), (<<"E">>)>>,
      position |-> <<"p">>, motif |-> << <<(<<"P">>), <<(<<"m", "1">>)>> >> >>]}

StrRecords ==
    {[entry |-> e, name |-> n, definition |-> o.definition, orthology |-> o.orthology,
      organism |-> o.organism, position |-> o.position, motif |-> o.motif,
      dblinks |-> l] :
        e \in EntrySet, n \in SeqsUpTo(NameSet, MaxItems),
        l \in SeqsUpTo(RowSet, MaxItems), o \in OtherFields}

\* ---- the inputs of parse ----
Inputs == SeqsUpTo(LineSet, MaxLines)

\* ---- the generator parse(handle), one step per line of the for-loop ----
Init ==
    /\ handle \in Inputs
    /\ pos = 0
    /\ keyword = UNBOUND
    /\ heap = <<Record>>
    /\ record = 1
    /\ yielded = <<>>
    /\ pc = "run"
    /\ exc = "None"
    /\ orig = Record
    /\ text = <<>>

\* parse_yield with a terminator that yields only a record that holds something
parse_yield_unless_empty ==
    /\ pc = "run"
    /\ pos < Len(handle)
    /\ is_terminator(handle[pos + 1])
    /\ pos' = pos + 1
    /\ IF heap[record] = Record
       THEN UNCHANGED <<yielded, pc>>
       ELSE /\ yielded' = Append(yielded, record)
            /\ pc' = "suspended"
    /\ UNCHANGED <<handle, keyword, heap, record, exc, orig, text>>

\* a parse that hands a record over at the terminator and goes on at once,
\* without waiting for the consumer
parse_yield_eager ==
    /\ pc = "run"
    /\ pos < Len(handle)
    /\ is_terminator(handle[pos + 1])
    /\ pos' = pos + 1
    /\ yielded' = Append(yielded, record)
    /\ heap' = Append(heap, Record)
    /\ record' = Len(heap) + 1
    /\ UNCHANGED <<handle, keyword, pc, exc, orig, text>>

\* line[:3] == "///": yield record.  The generator hands the object to the
\* consumer and stays suspended at the yield until the consumer asks for more.
parse_yield ==
    /\ pc = "run"
    /\ pos < Len(handle)
    /\ is_terminator(handle[pos + 1])
    /\ pos' = pos + 1
    /\ yielded' = Append(yielded, record)
    /\ pc' = "suspended"
    /\ UNCHANGED <<handle, keyword, heap, record, exc, orig, text>>

\* parse_resume that goes on filling the object it has just yielded
parse_resume_same_record ==
    /\ pc = "suspended"
    /\ pc' = "run"
    /\ UNCHANGED <<handle, pos, keyword, heap, record, yielded, exc, orig, text>>

\* parse_resume that also forgets the keyword of the record it has yielded
parse_resume_reset_keyword ==
    /\ pc = "suspended"
    /\ heap' = Append(heap, Record)
    /\ record' = Len(heap) + 1
    /\ keyword' = UNBOUND
    /\ pc' = "run"
    /\ UNCHANGED <<handle, pos, yielded, exc, orig, text>>

\* the consumer asks for the next record: record = Record(); continue
parse_resume ==
    /\ pc = "suspended"
    /\ heap' = Append(heap, Record)
    /\ record' = Len(heap) + 1
    /\ pc' = "run"
    /\ UNCHANGED <<handle, pos, keyword, yielded, exc, orig, text>>

\* the consumer stops iterating: the generator is never resumed (no try or
\* finally surrounds the yield, so closing it runs no code of parse)
consumer_stop ==
    /\ pc = "suspended"
    /\ pc' = "closed"
    /\ UNCHANGED <<handle, pos, keyword, heap, record, yielded, exc, orig, text>>

\* any other line that its handler accepts: the keyword update and the handler
parse_line ==
    /\ pc = "run"
    /\ pos < Len(handle)
    /\ ~is_terminator(handle[pos + 1])
    /\ LET out == line_outcome(keyword, heap[record], handle[pos + 1])
       IN /\ out.exc = "None"
          /\ heap' = [heap EXCEPT ![record] = out.record]
    /\ keyword' = next_keyword(keyword, handle[pos + 1])
    /\ pos' = pos + 1
    /\ UNCHANGED <<handle, record, yielded, pc, exc, orig, text>>

\* parse_raise that swallows the exception and goes on with the next line
parse_raise_and_resume ==
    /\ pc = "run"
    /\ pos < Len(handle)
    /\ ~is_terminator(handle[pos + 1])
    /\ LET out == line_outcome(keyword, heap[record], handle[pos + 1])
       IN /\ out.exc # "None"
          /\ exc' = out.exc
    /\ keyword' = next_keyword(keyword, handle[pos + 1])
    /\ pos' = pos + 1
    /\ UNCHANGED <<handle, heap, record, yielded, pc, orig, text>>

\* any other line on which a statement raises: the exception leaves the
\* generator, which is finished from then on
parse_raise ==
    /\ pc = "run"
    /\ pos < Len(handle)
    /\ ~is_terminator(handle[pos + 1])
    /\ LET out == line_outcome(keyword, heap[record], handle[pos + 1])
       IN /\ out.exc # "None"
          /\ exc' = out.exc
    /\ pc' = "error"
    /\ keyword' = next_keyword(keyword, handle[pos + 1])
    /\ pos' = pos + 1
    /\ UNCHANGED <<handle, heap, record, yielded, orig, text>>

\* parse_stop with a final yield of a record left unfinished
parse_stop_flush ==
    /\ pc = "run"
    /\ pos = Len(handle)
    /\ pc' = "done"
    /\ yielded' = IF heap[record] # Record THEN Append(yielded, record) ELSE yielded
    /\ UNCHANGED <<handle, pos, keyword, heap, record, exc, orig, text>>

\* the for-loop finds handle exhausted: the generator returns
parse_stop ==
    /\ pc = "run"
    /\ pos = Len(handle)
    /\ pc' = "done"
    /\ UNCHANGED <<handle, pos, keyword, heap, record, yielded, exc, orig, text>>

Next ==
    \/ parse_yield \/ parse_resume \/ consumer_stop
    \/ parse_line \/ parse_raise \/ parse_stop

Spec == Init /\ [][Next]_vars

\* ---- str(record), then parse over the lines of the text ----
InitStr ==
    /\ orig \in StrRecords
    /\ text = <<>>
    /\ handle = <<>>
    /\ pos = 0
    /\ keyword = UNBOUND
    /\ heap = <<Record>>
    /\ record = 1
    /\ yielded = <<>>
    /\ pc = "start"
    /\ exc = "None"

\* text = str(orig); the text is handed to parse line by line
serialize ==
    /\ pc = "start"
    /\ text' = __str__(orig)
    /\ handle' = splitlines(text', TRUE)
    /\ pc' = "run"
    /\ UNCHANGED <<pos, keyword, heap, record, yielded, exc, orig>>

\* the consumer of the round trip takes every record
NextStr ==
    \/ serialize
    \/ parse_yield \/ parse_resume \/ parse_line \/ parse_raise \/ parse_stop

SpecStr == InitStr /\ [][NextStr]_vars

\* ---- vocabulary of the properties ----
\* the places of the terminator lines among the first n lines of the input
Terminators(n) == {i \in 1..n : is_terminator(handle[i])}

\* the records handed to the consumer, as they are now
YieldedRecords == [k \in 1..Len(yielded) |-> heap[yielded[k]]]

\* the place of the k-th terminator line of the input
TerminatorAt(k) ==
    CHOOSE i \in Terminators(Len(handle)) : Cardinality(Terminators(i)) = k

\* the generator has finished, one way or the other
Finished == pc \in {"done", "error"}

\* the line the for-loop took last
LastLine == handle[pos]

\* ---- C1 ----
\* C1 as stated: for every finite input in which each terminator is preceded by
\* at least one data line, the number of records parse yields equals the number
\* of terminator lines in the input; a terminator with no data line since the
\* previous one yields a zero-valued Record instead of raising.
C1_CountEqualsTerminatorsOfInput ==
    /\ (Finished /\ \A i \in Terminators(Len(handle)) :
                        i > 1 /\ ~is_terminator(handle[i - 1]))
          => Len(yielded) = Cardinality(Terminators(Len(handle)))
    /\ \A k \in 1..Len(yielded) :
          (TerminatorAt(k) = 1 \/ is_terminator(handle[TerminatorAt(k) - 1]))
             => YieldedRecords[k] = Record

\* C1 amended: at every point of a parse the number of records yielded equals
\* the number of terminator lines read so far, hence the number of terminator
\* lines of the input when parse reaches the end of the input without raising
\* (whether or not data lines precede the terminators); a terminator with no
\* data line since the previous one yields a zero-valued Record, no error.
C1_CountEqualsTerminatorsRead ==
    /\ Len(yielded) = Cardinality(Terminators(pos))
    /\ pc = "done" => Len(yielded) = Cardinality(Terminators(Len(handle)))
    /\ \A k \in 1..Len(yielded) :
          (TerminatorAt(k) = 1 \/ is_terminator(handle[TerminatorAt(k) - 1]))
             => YieldedRecords[k] = Record

\* a finished parse of <<terminator, data line, terminator>>: two records, the
\* first one zero-valued
C1_Witness ==
    /\ pc = "done"
    /\ Len(handle) = 3
    /\ is_terminator(handle[1]) /\ ~is_terminator(handle[2]) /\ is_terminator(handle[3])
    /\ Len(yielded) = 2
    /\ YieldedRecords[1] = Record /\ YieldedRecords[2] # Record

\* ---- C2 ----
\* C2: when the input ends without a terminator after the last data lines,
\* parse ends normally and the partial record is never yielded: the object that
\* accumulated the trailing lines is none of the yielded ones (whenever the
\* generator is running or has ended, i.e. is not suspended at a yield), and
\* there is one yielded record per terminator and no more.
C2_PartialRecordDropped ==
    /\ pc \in {"run", "done", "error"} => \A k \in 1..Len(yielded) : yielded[k] # record
    /\ Len(yielded) <= Cardinality(Terminators(Len(handle)))
    /\ (pc = "run" /\ pos = Len(handle)) => ENABLED parse_stop
    /\ pc = "done" =>
          /\ exc = "None"
          /\ pos = Len(handle)
          /\ Len(yielded) = Cardinality(Terminators(Len(handle)))

\* a finished parse whose input ends in data lines that changed the record
C2_Witness ==
    /\ pc = "done"
    /\ Len(handle) > 0 /\ ~is_terminator(handle[Len(handle)])
    /\ heap[record] # Record
    /\ Len(yielded) >= 1

\* ---- vocabulary of the per-line properties ----
\* the line the for-loop takes next
NextLine == handle[pos + 1]

\* the next step handles a non-terminator line
AtDataLine == pc = "run" /\ pos < Len(handle) /\ ~is_terminator(NextLine)

\* ... and dispatches it under keyword kw
DispatchedUnder(kw) == AtDataLine /\ next_keyword(keyword, NextLine) = kw

\* the data of that line
NextData == line_data(NextLine)

\* the step raised on the line and left every record as it was
RaisesHere == pc' = "error" /\ exc' # "None" /\ pos' = pos + 1 /\ heap' = heap

C5_SplitAtFirstDoubleSpace ==
    [][((DispatchedUnder(KW_ORTHOLOGY) \/ DispatchedUnder(KW_ORGANISM))
          /\ contains(NextData, DOUBLE_SPACE)) =>
          LET at == find(NextData, DOUBLE_SPACE)
              pair == <<SubSeq(NextData, 1, at - 1), Drop(NextData, at + 1)>>
          IN /\ pc' = "run"
             /\ exc' = "None"
             /\ IF DispatchedUnder(KW_ORTHOLOGY)
                THEN heap'[record].orthology = Append(heap[record].orthology, pair)
                ELSE heap'[record].organism = pair]_vars

\* ---- C6 ----
\* C6: a line dispatched under ORTHOLOGY or ORGANISM whose data has no double
\* space, a MOTIF line whose data has no ": ", and a DBLINKS line whose data
\* has a colon but no ": ", raise on that line; a DBLINKS line without a colon
\* never raises that failure: it is a continuation, which extends the last
\* pair when there is one.
C6_MissingSeparatorRaises ==
    [][AtDataLine =>
          LET kw == next_keyword(keyword, NextLine)
              malformed == pc' = "error" /\ exc' = "ValueError" /\ pos' = pos + 1
          IN /\ (kw \in {KW_ORTHOLOGY, KW_ORGANISM} /\ ~contains(NextData, DOUBLE_SPACE))
                   => malformed
             /\ (kw = KW_MOTIF /\ ~contains(NextData, COLON_SPACE)) => malformed
             /\ (kw = KW_DBLINKS /\ contains(NextData, <<":">>)
                   /\ ~contains(NextData, COLON_SPACE)) => malformed
             /\ (kw = KW_DBLINKS /\ ~contains(NextData, <<":">>)) =>
                   /\ exc' # "ValueError"
                   /\ heap[record].dblinks # <<>> =>
                         /\ pc' = "run"
                         /\ Len(heap'[record].dblinks) = Len(heap[record].dblinks)]_vars

\* a blank-label line without ": " that inherited MOTIF has raised
C6_Witness ==
    /\ pc = "error"
    /\ exc = "ValueError"
    /\ keyword = KW_MOTIF
    /\ Take(LastLine, 12) = BLANK_LABEL
    /\ ~contains(line_data(LastLine), COLON_SPACE)

\* ---- C7 ----
\* the keyword in force once the first i lines of the input are handled
RECURSIVE KeywordAfter(_)
KeywordAfter(i) ==
    IF i = 0 THEN UNBOUND
    ELSE IF is_terminator(handle[i]) THEN KeywordAfter(i - 1)
    ELSE next_keyword(KeywordAfter(i - 1), handle[i])

\* the lines of the segment that the k-th terminator closes
Segment(k) ==
    ((IF k = 1 THEN 0 ELSE TerminatorAt(k - 1)) + 1)..(TerminatorAt(k) - 1)

\* how many lines of that segment are dispatched under MOTIF
MotifLines(k) == Cardinality({i \in Segment(k) : KeywordAfter(i) = KW_MOTIF})

C8_DedicatedContinuationError ==
    (/\ pc = "error"
     /\ keyword = KW_DBLINKS
     /\ ~contains(line_data(LastLine), <<":">>)
     /\ heap[record].dblinks = <<>>)
        => exc = "EmptyReferenceError"

\* ---- C9 ----
\* C9: once a line has raised, the generator is finished: no record for the
\* segment of that line nor for any later one, whatever follows; the records
\* yielded are exactly those of the terminators before the failing line.
C9_ErrorAbortsIteration ==
    exc # "None" =>
        /\ pc = "error"
        /\ ~is_terminator(LastLine)
        /\ Len(yielded) = Cardinality(Terminators(pos - 1))
        /\ ~ENABLED Next

\* a line raised after one record was yielded and before a later terminator
C9_Witness ==
    /\ exc # "None"
    /\ Len(yielded) = 1
    /\ \E i \in (pos + 1)..Len(handle) : is_terminator(handle[i])

\* ---- vocabulary of the serializer properties ----
\* a string with its whitespace normalized: the words, one blank between them
normalized(s) == join(<<" ">>, split(s))

SameString(a, b) == normalized(a) = normalized(b)

SameStrings(a, b) ==
    Len(a) = Len(b) /\ \A i \in 1..Len(a) : SameString(a[i], b[i])

SamePairs(a, b) ==
    /\ Len(a) = Len(b)
    /\ \A i \in 1..Len(a) : SameString(a[i][1], b[i][1]) /\ SameStrings(a[i][2], b[i][2])

\* a Record populated with entry, name and dblinks only
OnlyEntryNameDblinks(r) ==
    /\ r.definition = <<>> /\ r.orthology = <<>> /\ r.organism = <<>>
    /\ r.position = <<>> /\ r.motif = <<>>

\* parse gave exactly one record, with the entry, name and dblinks of orig
RoundTrips ==
    /\ pc = "done"
    /\ Len(yielded) = 1
    /\ SameString(YieldedRecords[1].entry, orig.entry)
    /\ SameStrings(YieldedRecords[1].name, orig.name)
    /\ SamePairs(YieldedRecords[1].dblinks, orig.dblinks)

\* the characters at which str.splitlines() ends a line
LINE_BREAKS == {"\n", "\r", "\f"}

\* a non-empty string without whitespace
IsToken(s) == s # <<>> /\ \A i \in 1..Len(s) : s[i] \notin WHITESPACE

\* a token of at most 20 characters without a colon
IsShortId(s) == IsToken(s) /\ Len(s) <= 20 /\ ~contains(s, <<":">>)

\* the Records the amended round trip is about
WellFormed(r) ==
    /\ IsToken(r.entry)
    /\ \A i \in 1..Len(r.name) :
          /\ r.name[i] # <<>>
          /\ Len(r.name[i]) <= KEGG_DATA_LENGTH
          /\ \A j \in 1..Len(r.name[i]) : r.name[i][j] \notin LINE_BREAKS
          /\ r.name[i][1] \notin WHITESPACE \cup {";"}
          /\ r.name[i][Len(r.name[i])] \notin WHITESPACE \cup {";"}
    /\ \A i \in 1..Len(r.dblinks) :
          /\ IsShortId(r.dblinks[i][1])
          /\ r.dblinks[i][2] # <<>>
          /\ \A j \in 1..Len(r.dblinks[i][2]) : IsShortId(r.dblinks[i][2][j])

WithoutOtherFields(r) ==
    [r EXCEPT !.definition = <<>>, !.orthology = <<>>, !.organism = <<>>,
              !.position = <<>>, !.motif = <<>>]

\* the block a line opens, by its label column: 1 ENTRY, 2 NAME, 3 DBLINKS,
\* 0 for a blank label (the line continues its block), 9 for anything else
BlockOf(line) ==
    IF Take(line, 12) = BLANK_LABEL THEN 0
    ELSE IF Take(line, 12) = KW_ENTRY THEN 1
    ELSE IF Take(line, 12) = KW_NAME THEN 2
    ELSE IF Take(line, 12) = KW_DBLINKS THEN 3
    ELSE 9

\* C10: the text of a Record is the ENTRY block, the NAME block, the DBLINKS
\* block and the terminator "///", in this order, with nothing after the
\* terminator, and depends on entry, name and dblinks only.  Stated of the
\* text as serialize leaves it (no later step changes text or orig).
C10_TextIsEntryNameDblinksTerminator ==
    (pc = "run" /\ pos = 0) =>
        LET lines == splitlines(text, FALSE)
            n == Len(lines)
        IN /\ text = __str__(WithoutOtherFields(orig))
           /\ n >= 1
           /\ lines[n] = TERMINATOR
           /\ Drop(text, Len(text) - 3) = TERMINATOR
           /\ \A i \in 1..(n - 1) : BlockOf(lines[i]) \in 0..3
           /\ \A i, j \in 1..(n - 1) :
                 (i < j /\ BlockOf(lines[i]) # 0 /\ BlockOf(lines[j]) # 0)
                    => BlockOf(lines[i]) < BlockOf(lines[j])
           /\ n > 1 => BlockOf(lines[1]) # 0
           /\ (Cardinality({i \in 1..(n - 1) : BlockOf(lines[i]) = 1}) = 1)
                 <=> orig.entry # <<>>
           /\ (Cardinality({i \in 1..(n - 1) : BlockOf(lines[i]) = 2}) = 1)
                 <=> orig.name # <<>>
           /\ (Cardinality({i \in 1..(n - 1) : BlockOf(lines[i]) = 3}) = 1)
                 <=> orig.dblinks # <<>>

\* the text of a Record with names, pairs and the other fields populated
C10_Witness ==
    /\ pc = "run"
    /\ pos = 0
    /\ orig.definition # <<>> /\ orig.motif # <<>>
    /\ Len(orig.name) = 2
    /\ Len(orig.dblinks) = 2
    /\ text # <<>>

\* ---- C11 ----
\* C11: parse is consumer-paced.  Records are handed over one at a time, each
\* by a step that reads a terminator line and suspends the generator; while the
\* k-th record is in the consumer's hands the lines read are exactly the prefix
\* of the input that ends with the k-th terminator, and no line is read until
\* the consumer asks for more; once the consumer has stopped, nothing more
\* happens: no line is read and no error arises, whatever the later lines are.
C11_ConsumerPaced ==
    /\ [](pc \in {"suspended", "closed"} =>
             /\ Len(yielded) >= 1
             /\ pos = TerminatorAt(Len(yielded))
             /\ yielded[Len(yielded)] = record
             /\ exc = "None")
    /\ [][yielded' # yielded =>
             /\ pc = "run" /\ pc' = "suspended"
             /\ pos' = pos + 1 /\ is_terminator(handle[pos'])
             /\ yielded' = Append(yielded, record)]_vars
    /\ [][pc = "suspended" => pos' = pos /\ exc' = exc /\ yielded' = yielded]_vars
    /\ [][pc # "closed"]_vars

\* the consumer stopped after the first record of an input whose third line,
\* never read, is an ORTHOLOGY line that has no double space
C11_Witness ==
    /\ pc = "closed"
    /\ Len(handle) = 3
    /\ pos = 2
    /\ Len(yielded) = 1
    /\ handle[3] = LineOrthologyNoSep
    /\ exc = "None"

\* ---- vocabulary of the keyword properties ----
\* the eight labels the parser's if/elif chain knows
KEYWORDS ==
    {KW_ENTRY, KW_NAME, KW_DEFINITION, KW_ORTHOLOGY, KW_ORGANISM, KW_POSITION,
     KW_MOTIF, KW_DBLINKS}

\* the label column of a line
LabelColumn(line) == Take(line, 12)

\* line i of the input is no terminator and carries a label
Labelled(i) == ~is_terminator(handle[i]) /\ LabelColumn(handle[i]) # BLANK_LABEL

\* the place of the most recent labelled line among the first i lines, 0 when
\* there is none
LastLabelled(i) ==
    LET before == {j \in 1..i : Labelled(j)}
    IN IF before = {} THEN 0 ELSE CHOOSE j \in before : \A m \in before : m <= j

\* the label in force at line i, read off the input alone
LabelInForce(i) == LabelColumn(handle[LastLabelled(i)])

\* ---- C12 ----
\* C12: a line whose label column is none of the eight keywords, and every
\* blank-label line that follows it before the next labelled line, is ignored:
\* the step that takes it raises nothing, leaves every field of every record as
\* it was, yields nothing and just moves on to the next line.
C12_UnknownLabelIgnored ==
    [][(AtDataLine /\ LastLabelled(pos + 1) # 0
                   /\ LabelInForce(pos + 1) \notin KEYWORDS)
          => /\ heap' = heap
             /\ yielded' = yielded /\ record' = record
             /\ exc' = "None" /\ pc' = "run"
             /\ pos' = pos + 1]_vars

\* a REFERENCE line and a blank-label line after it were read, following an
\* ENTRY line: the record holds its entry and nothing else
C12_Witness ==
    /\ pc = "run"
    /\ pos = 3
    /\ handle = <<LineEntry, LineUnknown, LineBlank>>
    /\ heap[record] = [Record EXCEPT !.entry = split(line_data(LineEntry))[1]]
    /\ exc = "None"

\* ---- C13 ----
\* C13: at every point the current keyword is the label column of the most
\* recent non-terminator line read whose first 12 characters were not all
\* blank (no value before any such line); a line with a blank label column is
\* dispatched under that inherited keyword, and a line with a label is
\* dispatched under its own label, which replaces the keyword first.
C13_KeywordIsLastLabel ==
    /\ [](keyword = IF LastLabelled(pos) = 0 THEN UNBOUND ELSE LabelInForce(pos))
    /\ [][(AtDataLine /\ LastLabelled(pos + 1) # 0) =>
             LET out == dispatch(LabelInForce(pos + 1), heap[record], NextData)
             IN /\ keyword' = LabelInForce(pos + 1)
                /\ IF out.exc = "None"
                   THEN heap' = [heap EXCEPT ![record] = out.record] /\ pc' = "run"
                   ELSE RaisesHere /\ exc' = out.exc]_vars

\* a NAME line, a blank-label line dispatched under NAME, then a DEFINITION
\* line that replaced the keyword
C13_Witness ==
    /\ pc = "run"
    /\ pos = 3
    /\ handle = <<LineName, LineBlank, LineDefinition>>
    /\ keyword = KW_DEFINITION
    /\ heap[record].name = <<strip_chars(line_data(LineName), {";"}), line_data(LineBlank)>>
    /\ heap[record].definition = line_data(LineDefinition)

\* ---- C14 ----
\* C14: no record is changed after it has been yielded.  No step changes the
\* value of an object already handed to the consumer; a step changes at most
\* the current record; and the record the generator fills after a yield is a
\* new, zero-valued object that is none of the yielded ones.
C14_YieldedRecordNeverMutated ==
    /\ [][\A k \in 1..Len(yielded) : heap'[yielded[k]] = heap[yielded[k]]]_vars
    /\ [][\A i \in 1..Len(heap) : i # record => heap'[i] = heap[i]]_vars
    /\ [][(pc = "suspended" /\ pc' = "run") =>
             /\ heap'[record'] = Record
             /\ record' \notin 1..Len(heap)]_vars
    /\ [](pc = "run" => \A k \in 1..Len(yielded) : yielded[k] # record)

\* a record with one dblinks pair was yielded, and the DBLINKS line read after
\* its terminator went to another object
C14_Witness ==
    /\ pc = "run"
    /\ pos = 3
    /\ handle = <<LineDblinks, LineTerminator, LineDblinks>>
    /\ Len(yielded) = 1
    /\ record # yielded[1]
    /\ Len(heap[yielded[1]].dblinks) = 1
    /\ Len(heap[record].dblinks) = 1

\* ---- C15 ----
\* s.rstrip(chars): what removing the trailing chars only would give
rstrip_chars(s, chars) ==
    LET keep == {i \in 1..Len(s) : s[i] \notin chars}
    IN IF keep = {} THEN <<>>
       ELSE SubSeq(s, 1, CHOOSE i \in keep : \A j \in keep : j <= i)

\* the strings that the lines lo..hi dispatched under NAME would append if
\* only their trailing ";" were removed, in input order
RECURSIVE NamesKeepingLeading(_, _)
NamesKeepingLeading(lo, hi) ==
    IF hi < lo THEN <<>>
    ELSE IF KeywordAfter(hi) = KW_NAME
         THEN Append(NamesKeepingLeading(lo, hi - 1),
                     rstrip_chars(line_data(handle[hi]), {";"}))
         ELSE NamesKeepingLeading(lo, hi - 1)

\* C15 as stated: every line dispatched under NAME appends exactly one string
\* at the end of name, the line's trimmed data with its trailing ";" removed
\* and nothing else removed (leading ";" are kept); name of a yielded record
\* lists these strings in input order, one per NAME-dispatched line of its
\* segment.
C15_NameKeepsLeadingSemicolons ==
    /\ [][DispatchedUnder(KW_NAME) =>
             /\ pc' = "run"
             /\ heap'[record].name =
                   Append(heap[record].name, rstrip_chars(NextData, {";"}))]_vars
    /\ [](\A k \in 1..Len(yielded) :
             YieldedRecords[k].name =
                NamesKeepingLeading((IF k = 1 THEN 0 ELSE TerminatorAt(k - 1)) + 1,
                                    TerminatorAt(k) - 1))

\* ---- C16 ----
\* the place of the last line of the segment of the k-th record dispatched
\* under kw, 0 when the segment has none
LastUnder(k, kw) ==
    LET under == {i \in Segment(k) : KeywordAfter(i) = kw}
    IN IF under = {} THEN 0 ELSE CHOOSE i \in under : \A j \in under : j <= i

\* the (id, name) pair of a data with one double space
PairOf(data) ==
    LET at == find(data, DOUBLE_SPACE)
    IN <<SubSeq(data, 1, at - 1), Drop(data, at + 1)>>

\* C16: definition, position and organism are overwritten, never appended.  A
\* line dispatched under DEFINITION or POSITION that does not raise leaves the
\* field equal to its own data, one under ORGANISM to its own (id, name) pair,
\* whatever the field held; so in a yielded record each of the three equals
\* the value of the last line of the segment dispatched under its keyword
\* (labelled or blank-label alike), and the zero value when there is none.
C16_ScalarsHoldLastValue ==
    /\ [][(DispatchedUnder(KW_DEFINITION) /\ pc' = "run")
             => heap'[record].definition = NextData]_vars
    /\ [][(DispatchedUnder(KW_POSITION) /\ pc' = "run")
             => heap'[record].position = NextData]_vars
    /\ [][(DispatchedUnder(KW_ORGANISM) /\ pc' = "run")
             => heap'[record].organism = PairOf(NextData)]_vars
    /\ [](\A k \in 1..Len(yielded) :
             LET d == LastUnder(k, KW_DEFINITION)
                 p == LastUnder(k, KW_POSITION)
                 o == LastUnder(k, KW_ORGANISM)
             IN /\ YieldedRecords[k].definition =
                      IF d = 0 THEN <<>> ELSE line_data(handle[d])
                /\ YieldedRecords[k].position =
                      IF p = 0 THEN <<>> ELSE line_data(handle[p])
                /\ YieldedRecords[k].organism =
                      IF o = 0 THEN <<>> ELSE PairOf(line_data(handle[o])))

\* a yielded record whose ORGANISM line was followed by a blank-label line with
\* another pair: the organism is the later pair
C16_Witness ==
    /\ handle = <<LineOrganism, LineBlankTwoParts, LineTerminator>>
    /\ Len(yielded) = 1
    /\ YieldedRecords[1].organism = <<(<<"h", "s", "a">>), (<<"H">>)>>
    /\ YieldedRecords[1].definition = <<>>

\* ---- C17 ----
\* the first whitespace-delimited token of a trimmed data
FirstToken(data) ==
    LET blanks == {i \in 1..Len(data) : data[i] \in WHITESPACE}
    IN IF blanks = {} THEN data
       ELSE SubSeq(data, 1, (CHOOSE i \in blanks : \A j \in blanks : i <= j) - 1)

\* C17 as stated: in every record that parse yields, entry is a non-empty
\* string equal to the first whitespace-delimited token of the data of an
\* ENTRY-dispatched line of that record's segment.
C17_EntryNonEmpty ==
    \A k \in 1..Len(yielded) :
        /\ YieldedRecords[k].entry # <<>>
        /\ \E i \in Segment(k) :
              /\ KeywordAfter(i) = KW_ENTRY
              /\ YieldedRecords[k].entry = FirstToken(line_data(handle[i]))

\* C17 amended: in every record that parse yields, entry is the first
\* whitespace-delimited token of the data of the last ENTRY-dispatched line of
\* the record's segment, a non-empty string, when the segment has such a line,
\* and the empty string when it has none; a line dispatched under ENTRY whose
\* data has no token raises instead of setting an empty entry.
C17_EntryIsFirstTokenOrEmpty ==
    /\ [](\A k \in 1..Len(yielded) :
             LET e == LastUnder(k, KW_ENTRY)
             IN IF e = 0 THEN YieldedRecords[k].entry = <<>>
                ELSE /\ YieldedRecords[k].entry = FirstToken(line_data(handle[e]))
                     /\ YieldedRecords[k].entry # <<>>)
    /\ [][(DispatchedUnder(KW_ENTRY) /\ NextData = <<>>)
             => RaisesHere /\ exc' = "IndexError"]_vars
    /\ [][(DispatchedUnder(KW_ENTRY) /\ NextData # <<>>)
             => /\ pc' = "run"
                /\ heap'[record].entry = FirstToken(NextData)]_vars

\* two records were yielded: the first, of a segment without any line, has an
\* empty entry; the second has the first token of its ENTRY line
C17_Witness ==
    /\ handle = <<LineTerminator, LineEntry, LineTerminator>>
    /\ Len(yielded) = 2
    /\ YieldedRecords[1].entry = <<>>
    /\ YieldedRecords[2].entry = <<"b", "1", "1", "7", "4">>

\* ---- C18 ----
\* the next step handles a blank-label line that directly follows a terminator
AfterTerminatorBlankLabel ==
    /\ AtDataLine
    /\ pos >= 1
    /\ is_terminator(handle[pos])
    /\ LabelColumn(NextLine) = BLANK_LABEL

\* C18: a terminator does not reset the current keyword.  The steps that
\* yield a record and put a fresh one in its place leave keyword as it was, so
\* a blank-label line that directly follows a terminator is dispatched under
\* the last label read before the terminator and applied to the fresh record:
\* under NAME it becomes the only name of the new record, under DBLINKS
\* without a colon it finds dblinks empty and raises; in no case is the
\* yielded record touched.
C18_KeywordSurvivesTerminator ==
    /\ [][(pc = "suspended" \/ (pc = "run" /\ pos < Len(handle)
                                           /\ is_terminator(NextLine)))
             => keyword' = keyword]_vars
    /\ [][(AfterTerminatorBlankLabel /\ LastLabelled(pos) # 0) =>
             LET out == dispatch(LabelInForce(pos), Record, NextData)
             IN /\ heap[record] = Record
                /\ keyword = LabelInForce(pos)
                /\ keyword' = keyword
                /\ IF out.exc = "None"
                   THEN heap' = [heap EXCEPT ![record] = out.record] /\ pc' = "run"
                   ELSE RaisesHere /\ exc' = out.exc]_vars
    /\ [][(AfterTerminatorBlankLabel /\ keyword = KW_NAME) =>
             /\ pc' = "run"
             /\ heap'[record].name = <<strip_chars(NextData, {";"})>>]_vars
    /\ [][(AfterTerminatorBlankLabel /\ keyword = KW_DBLINKS
                                     /\ ~contains(NextData, <<":">>)) =>
             RaisesHere /\ exc' = "IndexError"]_vars

\* a NAME line, its terminator, then a blank-label line: the line went under
\* NAME into the new record, the yielded record keeps its one name
C18_Witness ==
    /\ pc = "run"
    /\ pos = 3
    /\ handle = <<LineName, LineTerminator, LineBlank>>
    /\ keyword = KW_NAME
    /\ Len(yielded) = 1
    /\ YieldedRecords[1].name = <<(<<"m", "i", "n", "E">>)>>
    /\ heap[record].name = <<line_data(LineBlank)>>

\* ---- C19 ----
\* C19: the current keyword has no initial value.  A non-terminator line with
\* a blank label column that comes before any labelled non-terminator line of
\* the whole input (terminators before it or not) is not ignored: the step
\* that takes it raises, on that line, the error of reading a name that was
\* never assigned; after it the generator is finished, so the records yielded
\* are those of the terminators before that line and no other.
C19_BlankLabelBeforeAnyLabelRaises ==
    /\ [][(AtDataLine /\ LastLabelled(pos + 1) = 0) =>
             /\ keyword = UNBOUND
             /\ RaisesHere
             /\ exc' = "UnboundLocalError"
             /\ yielded' = yielded]_vars
    /\ [](exc = "UnboundLocalError" =>
             /\ pc = "error"
             /\ LastLabelled(pos) = 0
             /\ LabelColumn(LastLine) = BLANK_LABEL
             /\ Len(yielded) = Cardinality(Terminators(pos - 1)))
    /\ [][pc # "error"]_vars

\* a terminator, a blank-label line, a terminator: one record was yielded, the
\* second line raised, the last terminator is never read
C19_Witness ==
    /\ handle = <<LineTerminator, LineBlank, LineTerminator>>
    /\ pc = "error"
    /\ exc = "UnboundLocalError"
    /\ pos = 2
    /\ Len(yielded) = 1
====
